---- MODULE Spec2Model ----
(***************************************************************************)
(* Model of doclink-checker (src/src/lib.rs): the markdown link extractor  *)
(* LinkAnalyzer::extract_links and the LinkAnalyzer state machine          *)
(* (analyze_directory, find_broken_links, find_orphaned_documents,         *)
(* get_statistics) over a small filesystem.                                *)
(*                                                                         *)
(* A string is a sequence of one-character strings; a path is a sequence   *)
(* of components, each component a string in that sense.                   *)
(***************************************************************************)
EXTENDS Integers, Sequences, FiniteSets, TLC

VARIABLES
    content,         \* extractor input under construction (&str)
    written,         \* number of fragments written into content
    links,           \* Some(extract_links(content)), None before the call
    base_path,       \* LinkAnalyzer.base_path
    documents,       \* LinkAnalyzer.documents : path -> sequence of MarkdownLink
    iter_order,      \* iteration order of the documents HashMap
    file_text,       \* the text of each markdown file of the tree
    exists,          \* files present on the filesystem
    unreadable,      \* files / directories whose read fails
    fs_changes,      \* number of filesystem changes so far
    analyze_result,  \* what analyze_directory returned, NoValue before the call
    broken,          \* Some(value find_broken_links returned) since the last change
    orphans,         \* Some(value find_orphaned_documents returned) since the last change
    stats            \* Some(value get_statistics returned) since the last change

extractVars == <<content, written, links>>
analyzerVars == <<base_path, documents, iter_order, file_text, exists, unreadable,
                  fs_changes, analyze_result, broken, orphans, stats>>
vars == <<content, written, links, base_path, documents, iter_order, file_text, exists,
          unreadable,
          fs_changes, analyze_result, broken, orphans, stats>>

\* Option<T>: None is the empty sequence, Some(x) the one-element sequence
None == <<>>
Some(x) == <<x>>
NoValue == "NoValue"

\* ------------------------------------------------------------------------
\* Strings
\* ------------------------------------------------------------------------

NL == "\n"

IsWhitespace(c) == c \in {" ", "\t"}

\* char::to_lowercase on the characters the model uses
LowerChar(c) ==
    CASE c = "A" -> "a"
      [] c = "B" -> "b"
      [] c = "H" -> "h"
      [] c = "T" -> "t"
      [] c = "P" -> "p"
      [] c = "S" -> "s"
      [] OTHER -> c

\* str::to_lowercase
to_lowercase(s) == [i \in 1..Len(s) |-> LowerChar(s[i])]

\* str::starts_with (case-sensitive)
starts_with(s, prefix) ==
    /\ Len(s) >= Len(prefix)
    /\ \A i \in 1..Len(prefix) : s[i] = prefix[i]

\* index of the first c in s at or after position from, 0 when there is none
FirstIdx(s, c, from) ==
    LET hits == {i \in from..Len(s) : s[i] = c}
    IN  IF hits = {} THEN 0 ELSE CHOOSE i \in hits : \A j \in hits : i <= j

\* str::trim
trim(s) ==
    LET keep == {i \in 1..Len(s) : ~IsWhitespace(s[i])}
    IN  IF keep = {} THEN <<>>
        ELSE LET lo == CHOOSE i \in keep : \A j \in keep : i <= j
                 hi == CHOOSE i \in keep : \A j \in keep : i >= j
             IN  SubSeq(s, lo, hi)

\* str::lines: split at "\n"; a final empty piece after the last "\n" is not a line
RECURSIVE lines(_)
lines(s) ==
    IF s = <<>> THEN <<>>
    ELSE LET i == FirstIdx(s, NL, 1)
         IN  IF i = 0 THEN <<s>>
             ELSE <<SubSeq(s, 1, i - 1)>> \o lines(SubSeq(s, i + 1, Len(s)))

\* ------------------------------------------------------------------------
\* extract_links
\* ------------------------------------------------------------------------

\* reference_def_regex  ^\[([^\]]+)\]:\s*(.+)$  applied to one line.
\* [^\]]+ stops at the first "]"; \s* is greedy but gives back one character
\* when the rest of the line is all whitespace, so that (.+) is not empty.
reference_def_captures(line) ==
    IF Len(line) = 0 \/ line[1] # "[" THEN None
    ELSE LET j == FirstIdx(line, "]", 2)
         IN  IF j < 3 \/ j + 1 > Len(line) \/ line[j + 1] # ":" THEN None
             ELSE LET rest == SubSeq(line, j + 2, Len(line))
                      nonws == {i \in 1..Len(rest) : ~IsWhitespace(rest[i])}
                  IN  IF Len(rest) = 0 THEN None
                      ELSE Some([label |-> SubSeq(line, 2, j - 1),
                                 url |-> IF nonws = {}
                                         THEN <<rest[Len(rest)]>>
                                         ELSE SubSeq(rest,
                                                     CHOOSE i \in nonws : \A k \in nonws : i <= k,
                                                     Len(rest))])

\* inline_link_regex  \[([^\]]+)\]\(([^)]+)\)  anchored at position i
inline_link_at(line, i) ==
    IF i > Len(line) \/ line[i] # "[" THEN None
    ELSE LET j == FirstIdx(line, "]", i + 1)
         IN  IF j < i + 2 \/ j + 1 > Len(line) \/ line[j + 1] # "(" THEN None
             ELSE LET e == FirstIdx(line, ")", j + 2)
                  IN  IF e < j + 3 THEN None
                      ELSE Some([text |-> SubSeq(line, i + 1, j - 1),
                                 target |-> SubSeq(line, j + 2, e - 1),
                                 start |-> i,
                                 end |-> e])

\* reference_link_regex  \[([^\]]+)\]\[([^\]]*)\]  anchored at position i
reference_link_at(line, i) ==
    IF i > Len(line) \/ line[i] # "[" THEN None
    ELSE LET j == FirstIdx(line, "]", i + 1)
         IN  IF j < i + 2 \/ j + 1 > Len(line) \/ line[j + 1] # "[" THEN None
             ELSE LET k == FirstIdx(line, "]", j + 2)
                  IN  IF k = 0 THEN None
                      ELSE Some([text |-> SubSeq(line, i + 1, j - 1),
                                 label |-> SubSeq(line, j + 2, k - 1),
                                 start |-> i,
                                 end |-> k])

\* captures_iter: successive non-overlapping leftmost matches from position pos
RECURSIVE inline_captures_iter(_, _)
inline_captures_iter(line, pos) ==
    IF pos > Len(line) THEN <<>>
    ELSE LET m == inline_link_at(line, pos)
         IN  IF m = None THEN inline_captures_iter(line, pos + 1)
             ELSE m \o inline_captures_iter(line, m[1].end + 1)

RECURSIVE reference_captures_iter(_, _)
reference_captures_iter(line, pos) ==
    IF pos > Len(line) THEN <<>>
    ELSE LET m == reference_link_at(line, pos)
         IN  IF m = None THEN reference_captures_iter(line, pos + 1)
             ELSE m \o reference_captures_iter(line, m[1].end + 1)

\* faulty variant of reference_definitions: the first definition of a label
\* is kept and a later one ignored (entry().or_insert instead of insert)
RECURSIVE reference_definitions_first_kept(_, _)
reference_definitions_first_kept(ls, n) ==
    IF n = 0 THEN <<>>
    ELSE LET prev == reference_definitions_first_kept(ls, n - 1)
             caps == reference_def_captures(ls[n])
         IN  IF caps = None THEN prev
             ELSE LET label == to_lowercase(caps[1].label)
                      url == trim(caps[1].url)
                  IN  IF \E i \in 1..Len(prev) : prev[i].label = label
                      THEN prev
                      ELSE Append(prev, [label |-> label, url |-> url])

\* first pass: the reference_definitions map after the first n lines
\* (HashMap::insert: a later definition of a label replaces the earlier one)
RECURSIVE reference_definitions(_, _)
reference_definitions(ls, n) ==
    IF n = 0 THEN <<>>
    ELSE LET prev == reference_definitions(ls, n - 1)
             caps == reference_def_captures(ls[n])
         IN  IF caps = None THEN prev
             ELSE LET label == to_lowercase(caps[1].label)
                      url == trim(caps[1].url)
                      kept == SelectSeq(prev, LAMBDA d : d.label # label)
                  IN  Append(kept, [label |-> label, url |-> url])

\* HashMap::get on reference_definitions
definition_get(defs, key) ==
    LET hit == {i \in 1..Len(defs) : defs[i].label = key}
    IN  IF hit = {} THEN None ELSE Some(defs[CHOOSE i \in hit : TRUE].url)

\* line number pushed for the line at 0-based index line_num
pushed_line_number(line_num) == line_num + 1

\* the triples pushed for the inline matches of one line
inline_pushes(line, line_num) ==
    LET ms == inline_captures_iter(line, 1)
    IN  [i \in 1..Len(ms) |->
            [text |-> ms[i].text, target |-> ms[i].target,
             line_number |-> pushed_line_number(line_num)]]

\* the triples pushed for the reference matches of one line
RECURSIVE reference_pushes_of(_, _, _)
reference_pushes_of(ms, defs, line_num) ==
    IF ms = <<>> THEN <<>>
    ELSE LET m == Head(ms)
             label_key == IF m.label = <<>> THEN to_lowercase(m.text)
                          ELSE to_lowercase(m.label)
             url == definition_get(defs, label_key)
             tail == reference_pushes_of(Tail(ms), defs, line_num)
         IN  IF url = None THEN tail
             ELSE <<[text |-> m.text, target |-> url[1],
                     line_number |-> pushed_line_number(line_num)]>> \o tail

reference_pushes(line, defs, line_num) ==
    reference_pushes_of(reference_captures_iter(line, 1), defs, line_num)

\* what the body of the second loop pushes for one line
\* faulty variant of line_pushes: the reference loop placed before the inline loop
line_pushes_references_first(line, defs, line_num) ==
    reference_pushes(line, defs, line_num) \o inline_pushes(line, line_num)

line_pushes(line, defs, line_num) ==
    inline_pushes(line, line_num) \o reference_pushes(line, defs, line_num)

\* second pass over the lines with 0-based index >= line_num
RECURSIVE second_pass(_, _, _)
second_pass(ls, defs, line_num) ==
    IF line_num >= Len(ls) THEN <<>>
    ELSE line_pushes(ls[line_num + 1], defs, line_num)
             \o second_pass(ls, defs, line_num + 1)

extract_links(text) ==
    LET ls == lines(text)
        defs == reference_definitions(ls, Len(ls))
    IN  second_pass(ls, defs, 0)

\* ------------------------------------------------------------------------
\* Extractor inputs: texts assembled from markdown fragments
\* ------------------------------------------------------------------------

MaxTokens == 5

Tokens == {
    <<"[", "a", "]">>,
    <<"[", "A", "]">>,
    <<"[", "]">>,
    <<"(", "u", ")">>,
    <<"(">>,
    <<":">>,
    <<" ">>,
    <<NL>>
}

InitExtract ==
    /\ content = <<>>
    /\ written = 0
    /\ links = None
    /\ base_path = <<>>
    /\ documents = <<>>
    /\ iter_order = <<>>
    /\ file_text = <<>>
    /\ exists = {}
    /\ unreadable = {}
    /\ fs_changes = 0
    /\ analyze_result = NoValue
    /\ broken = None
    /\ orphans = None
    /\ stats = None

\* the caller writes one more fragment of the document
Write(tok) ==
    /\ links = None
    /\ written < MaxTokens
    /\ content' = content \o tok
    /\ written' = written + 1
    /\ UNCHANGED <<links, analyzerVars>>

\* the call LinkAnalyzer::extract_links(&content)
ExtractLinks ==
    /\ links = None
    /\ links' = Some(extract_links(content))
    /\ UNCHANGED <<content, written, analyzerVars>>

NextExtract ==
    \/ \E tok \in Tokens : Write(tok)
    \/ ExtractLinks

SpecExtract == InitExtract /\ [][NextExtract]_vars

\* ------------------------------------------------------------------------
\* Extractor inputs: texts assembled from definition lines and references
\* ------------------------------------------------------------------------

MaxPieces == 4

\* whole reference definitions (two of one label, written in different case
\* and with different urls), reference-style links by label and by text,
\* one with a label nothing defines, and what separates or continues them
Pieces == {
    <<"[", "A", "]", ":", "u", NL>>,
    <<"[", "a", "]", ":", " ", "v", " ", NL>>,
    <<"[", "x", "]", "[", "a", "]">>,
    <<"[", "A", "]", "[", "]">>,
    <<"[", "x", "]", "[", "b", "]">>,
    <<"[", "a", "]", ":">>,
    <<"(", "u", ")">>,
    <<" ">>,
    <<NL>>
}

\* the caller writes one more piece of the document
WritePiece(piece) ==
    /\ links = None
    /\ written < MaxPieces
    /\ content' = content \o piece
    /\ written' = written + 1
    /\ UNCHANGED <<links, analyzerVars>>

NextReference ==
    \/ \E piece \in Pieces : WritePiece(piece)
    \/ ExtractLinks

SpecReference == InitExtract /\ [][NextReference]_vars

\* ------------------------------------------------------------------------
\* Paths (std::path) and the filesystem
\* ------------------------------------------------------------------------

ROOT == <<"/">>
CUR == <<".">>
PARENT == <<".", ".">>

W_DIR == <<"w">>
L_LINK == <<"l">>
DOCS == <<"d", "o", "c", "s">>
README_MD == <<"R", "E", "A", "D", "M", "E", ".", "m", "d">>
readme_md == <<"r", "e", "a", "d", "m", "e", ".", "m", "d">>
A_MD == <<"a", ".", "m", "d">>
B_MD == <<"b", ".", "m", "d">>
MD == <<"m", "d">>

\* The analysed tree is the directory /w, which is also the working directory;
\* /l is a symbolic link to /w.  Entries are named by their path relative to /w.
WorkDir == <<ROOT, W_DIR>>
SymLink == <<ROOT, L_LINK>>
DocsDir == <<DOCS>>
TreeFiles == {<<README_MD>>, <<A_MD>>, <<DOCS, B_MD>>}
TreeDirs == {<<>>, DocsDir}

\* the ways the caller may write the directory /w as base path
BasePaths == {
    WorkDir,                          \* /w
    <<CUR>>,                          \* .
    <<ROOT, W_DIR, DOCS, PARENT>>,    \* /w/docs/..
    SymLink                           \* /l
}

\* the pieces of s between "/" characters, empty pieces included
RECURSIVE split_slash(_)
split_slash(s) ==
    LET i == FirstIdx(s, "/", 1)
    IN  IF i = 0 THEN <<s>>
        ELSE <<SubSeq(s, 1, i - 1)>> \o split_slash(SubSeq(s, i + 1, Len(s)))

\* Path::components of the string s: a leading "/" is the root, empty pieces
\* and "." pieces are dropped except for a "." that starts a relative path
path_components(s) ==
    LET pieces == split_slash(s)
        absolute == starts_with(s, <<"/">>)
        named == SelectSeq(pieces, LAMBDA c : c # <<>> /\ c # CUR)
    IN  IF absolute THEN <<ROOT>> \o named
        ELSE IF pieces[1] = CUR THEN <<CUR>> \o named
        ELSE named

\* Path::join(p, s): an absolute s replaces p
join(p, s) ==
    IF starts_with(s, <<"/">>) \/ p = <<>> THEN path_components(s)
    ELSE p \o SelectSeq(split_slash(s), LAMBDA c : c # <<>> /\ c # CUR)

\* Path::parent
parent(p) ==
    IF p = <<>> \/ p = <<ROOT>> THEN None ELSE Some(SubSeq(p, 1, Len(p) - 1))

\* Path::extension: what follows the last "." of the file name, None for a
\* name without "." or with only a leading "."
extension(p) ==
    IF p = <<>> \/ p[Len(p)] \in {ROOT, CUR, PARENT} THEN None
    ELSE LET name == p[Len(p)]
             dots == {i \in 1..Len(name) : name[i] = "."}
             last == CHOOSE i \in dots : \A j \in dots : i >= j
         IN  IF dots = {} \/ last = 1 THEN None
             ELSE Some(SubSeq(name, last + 1, Len(name)))

\* the absolute path abs names a directory / an existing file
IsDirectory(abs) == abs = <<ROOT>> \/ \E d \in TreeDirs : abs = WorkDir \o d
IsFile(abs) == \E f \in exists : abs = WorkDir \o f

\* one step of path resolution: from the resolved directory at (None once
\* resolution has failed) through component c
resolve_step(at, c) ==
    IF at = None THEN None
    ELSE IF ~IsDirectory(at[1]) THEN None
    ELSE IF c = CUR THEN at
    ELSE IF c = PARENT
         THEN IF at[1] = <<ROOT>> THEN at ELSE Some(SubSeq(at[1], 1, Len(at[1]) - 1))
    ELSE LET next == Append(at[1], c)
         IN  IF next = SymLink THEN Some(WorkDir)
             ELSE IF IsDirectory(next) \/ IsFile(next) THEN Some(next)
             ELSE None

RECURSIVE resolve_from(_, _)
resolve_from(at, comps) ==
    IF comps = <<>> THEN at
    ELSE resolve_from(resolve_step(at, Head(comps)), Tail(comps))

\* fs::canonicalize / Path::canonicalize: Some(absolute path without ".",
\* ".." and symbolic links), None (an Err) when the path does not exist
canonicalize(p) ==
    IF p = <<>> THEN None
    ELSE IF p[1] = ROOT THEN resolve_from(Some(<<ROOT>>), Tail(p))
    ELSE resolve_from(Some(WorkDir), p)

\* Path::exists
path_exists(p) == canonicalize(p) # None

\* ------------------------------------------------------------------------
\* The markdown files of the tree
\* ------------------------------------------------------------------------

MdFiles == {<<README_MD>>, <<A_MD>>, <<DOCS, B_MD>>}

HTTP == <<"h", "t", "t", "p", ":", "/", "/">>
HTTPS == <<"h", "t", "t", "p", "s", ":", "/", "/">>

\* the markdown source of an inline link
Inline(text, target) == <<"[">> \o text \o <<"]", "(">> \o target \o <<")">>

\* the texts README.md may hold:  "#"  |  "[a](./a.md)\n[b](docs/b.md)"
ReadmeTexts == {
    <<"#">>,
    Inline(<<"a">>, <<".", "/">> \o A_MD) \o <<NL>>
        \o Inline(<<"b">>, DOCS \o <<"/">> \o B_MD)
}

\* the texts a.md may hold:
\*   "[me](a.md)\n[x](https://e)"  |  "[b](/docs/b.md)\n[y](HTTP://e)\n[m](m.md)"
ATexts == {
    Inline(<<"m", "e">>, A_MD) \o <<NL>> \o Inline(<<"x">>, HTTPS \o <<"e">>),
    Inline(<<"b">>, <<"/">> \o DOCS \o <<"/">> \o B_MD) \o <<NL>>
        \o Inline(<<"y">>, <<"H", "T", "T", "P", ":", "/", "/", "e">>) \o <<NL>>
        \o Inline(<<"m">>, <<"m", ".", "m", "d">>)
}

\* the texts docs/b.md may hold:
\*   "[a](../a.md)\n[z](a.md)"  |  "[r][]\n\n[r]: /README.md\n[x](http://e)"
BTexts == {
    Inline(<<"a">>, <<".", ".", "/">> \o A_MD) \o <<NL>> \o Inline(<<"z">>, A_MD),
    <<"[", "r", "]", "[", "]", NL, NL, "[", "r", "]", ":", " ", "/">> \o README_MD
        \o <<NL>> \o Inline(<<"x">>, HTTP \o <<"e">>)
}

TextsOf(f) ==
    IF f = <<README_MD>> THEN ReadmeTexts
    ELSE IF f = <<A_MD>> THEN ATexts
    ELSE BTexts

\* ------------------------------------------------------------------------
\* LinkAnalyzer
\* ------------------------------------------------------------------------

\* all orderings of the finite set S
Orderings(S) ==
    {o \in [1..Cardinality(S) -> S] : \A i, j \in 1..Cardinality(S) : o[i] = o[j] => i = j}

RECURSIVE Flatten(_)
Flatten(seqs) == IF seqs = <<>> THEN <<>> ELSE Head(seqs) \o Flatten(Tail(seqs))

\* WalkDir::new(base_path): the entries it yields when the children of the
\* root directory are read in the order root_order.  An entry is a path
\* relative to the root, or an error (a directory that cannot be listed).
\* The root comes first and a directory is followed by its own entries;
\* docs holds at most the one file b.md.
walk_entries(root_order) ==
    LET entry(rel) == [error |-> FALSE, rel |-> rel]
        below(rel) ==
            IF rel # DocsDir THEN <<entry(rel)>>
            ELSE IF DocsDir \in unreadable THEN <<entry(rel), [error |-> TRUE, rel |-> rel]>>
            ELSE IF <<DOCS, B_MD>> \in exists THEN <<entry(rel), entry(<<DOCS, B_MD>>)>>
            ELSE <<entry(rel)>>
    IN  <<entry(<<>>)>> \o Flatten([i \in 1..Len(root_order) |-> below(root_order[i])])

\* what the root directory holds: its existing files and the directory docs
RootChildren == {f \in exists : Len(f) = 1} \cup {DocsDir}

\* faulty variant of entry_path: the path canonicalized before it is used as a key
entry_path_canonicalized(base, rel) == WorkDir \o rel

\* entry.path(): the base path as written, followed by the entry's relative path
entry_path(base, rel) == base \o rel

\* the MarkdownLink values built from the triples of one file (lib.rs:63-71)
markdown_links(path, triples) ==
    [i \in 1..Len(triples) |->
        [text |-> triples[i].text,
         target |-> triples[i].target,
         line_number |-> triples[i].line_number,
         file_path |-> path]]

\* HashMap::insert
insert(docs, key, value) ==
    [k \in (DOMAIN docs) \cup {key} |-> IF k = key THEN value ELSE docs[k]]

\* the loop of analyze_directory over the remaining entries, docs being the
\* documents map so far: it stops at the first error (the two `?`)
RECURSIVE analyze_entries(_, _)
analyze_entries(entries, docs) ==
    IF entries = <<>> THEN [documents |-> docs, result |-> "Ok"]
    ELSE LET entry == Head(entries)
             path == entry_path(base_path, entry.rel)
         IN  IF entry.error THEN [documents |-> docs, result |-> "Err"]
             ELSE IF extension(path) = Some(MD)
                  THEN IF entry.rel \in unreadable
                       THEN [documents |-> docs, result |-> "Err"]
                       ELSE analyze_entries(
                                Tail(entries),
                                insert(docs, path,
                                       markdown_links(path,
                                                      extract_links(file_text[entry.rel]))))
                  ELSE analyze_entries(Tail(entries), docs)

\* faulty variant of is_external: the scheme compared without regard to case
is_external_ignoring_case(target) ==
    starts_with(to_lowercase(target), HTTP) \/ starts_with(to_lowercase(target), HTTPS)

\* link.target.starts_with("http://") || link.target.starts_with("https://")
is_external(target) == starts_with(target, HTTP) \/ starts_with(target, HTTPS)

\* faulty variant of resolved_path: every target resolved against the base path
resolved_path_from_base(file_path, target) ==
    IF starts_with(target, <<"/">>)
    THEN join(base_path, SubSeq(target, 2, Len(target)))
    ELSE join(base_path, target)

\* resolved_path before canonicalization (lib.rs:88-95 and 122-129)
resolved_path(file_path, target) ==
    IF starts_with(target, <<"/">>)
    THEN join(base_path, SubSeq(target, 2, Len(target)))
    ELSE LET dir == parent(file_path)
         IN  join(IF dir = None THEN base_path ELSE dir[1], target)

\* for (file_path, links) in &self.documents { for link in links { ... } }:
\* the pairs visited, in the order of the map's iteration
visited_links ==
    Flatten([i \in 1..Len(iter_order) |->
                [j \in 1..Len(documents[iter_order[i]]) |->
                    [file_path |-> iter_order[i], link |-> documents[iter_order[i]][j]]]])

\* resolved_path.canonicalize().unwrap_or(resolved_path)
canonicalize_or_keep(p) ==
    LET c == canonicalize(p) IN IF c = None THEN p ELSE c[1]

\* the path a visited link is looked up at by find_broken_links
lookup_path(v) == canonicalize_or_keep(resolved_path(v.file_path, v.link.target))

\* the visited link is pushed to broken_links
is_broken(v) ==
    /\ ~is_external(v.link.target)
    /\ ~path_exists(lookup_path(v))

find_broken_links ==
    LET pushed == SelectSeq(visited_links, is_broken)
    IN  [i \in 1..Len(pushed) |->
            [link |-> pushed[i].link,
             reason |-> [prefix |-> "File not found: ", path |-> lookup_path(pushed[i])]]]

\* the referenced_docs set of find_orphaned_documents
referenced_docs ==
    LET visited == visited_links
        internal == SelectSeq(visited, LAMBDA v : ~is_external(v.link.target))
        canonical == [i \in 1..Len(internal) |->
                         canonicalize(resolved_path(internal[i].file_path,
                                                    internal[i].link.target))]
    IN  {join(base_path, README_MD), join(base_path, readme_md)}
            \cup {canonical[i][1] : i \in {k \in 1..Len(internal) : canonical[k] # None}}

find_orphaned_documents ==
    LET referenced == referenced_docs
    IN  SelectSeq(iter_order,
                  LAMBDA doc_path :
                      LET c == canonicalize(doc_path)
                      IN  c # None /\ c[1] \notin referenced)

\* the per-document counts of the first loop of get_statistics
document_stats_of(doc_links) ==
    [total_links |-> Len(doc_links),
     internal_links |-> Len(SelectSeq(doc_links, LAMBDA l : ~is_external(l.target))),
     external_links |-> Len(SelectSeq(doc_links, LAMBDA l : is_external(l.target)))]

RECURSIVE sum_lengths(_)
sum_lengths(seqs) == IF seqs = <<>> THEN 0 ELSE Len(Head(seqs)) + sum_lengths(Tail(seqs))

\* faulty variant of get_statistics: the broken links counted by a loop of its
\* own, which looks every internal target up under the base path
get_statistics_own_count ==
    LET visited == visited_links
        all_links == [i \in 1..Len(visited) |-> visited[i].link]
    IN  [total_documents |-> Cardinality(DOMAIN documents),
         total_links |-> sum_lengths([i \in 1..Len(iter_order) |-> documents[iter_order[i]]]),
         internal_links |-> Len(SelectSeq(all_links, LAMBDA l : ~is_external(l.target))),
         external_links |-> Len(SelectSeq(all_links, LAMBDA l : is_external(l.target))),
         broken_links |-> Len(SelectSeq(all_links,
                                        LAMBDA l : /\ ~is_external(l.target)
                                                   /\ ~path_exists(join(base_path, l.target)))),
         orphaned_documents |-> Len(find_orphaned_documents),
         document_stats |-> [d \in DOMAIN documents |-> document_stats_of(documents[d])]]

get_statistics ==
    LET visited == visited_links
        all_links == [i \in 1..Len(visited) |-> visited[i].link]
    IN  [total_documents |-> Cardinality(DOMAIN documents),
         total_links |-> sum_lengths([i \in 1..Len(iter_order) |-> documents[iter_order[i]]]),
         internal_links |-> Len(SelectSeq(all_links, LAMBDA l : ~is_external(l.target))),
         external_links |-> Len(SelectSeq(all_links, LAMBDA l : is_external(l.target))),
         broken_links |-> Len(find_broken_links),
         orphaned_documents |-> Len(find_orphaned_documents),
         document_stats |-> [d \in DOMAIN documents |-> document_stats_of(documents[d])]]

\* ------------------------------------------------------------------------
\* The analyzer as a state machine
\* ------------------------------------------------------------------------

MaxFsChanges == 1

\* LinkAnalyzer::new(base_path) over the tree with all its files present
Init ==
    /\ content = <<>>
    /\ written = 0
    /\ links = None
    /\ base_path \in BasePaths
    /\ documents = <<>>
    /\ iter_order = <<>>
    /\ file_text \in {t \in [MdFiles -> ReadmeTexts \cup ATexts \cup BTexts] :
                        \A f \in MdFiles : t[f] \in TextsOf(f)}
    /\ exists = TreeFiles
    /\ unreadable = {}
    /\ fs_changes = 0
    /\ analyze_result = NoValue
    /\ broken = None
    /\ orphans = None
    /\ stats = None

\* someone removes a file of the tree
RemoveFile(f) ==
    /\ fs_changes < MaxFsChanges
    /\ f \in exists
    /\ exists' = exists \ {f}
    /\ fs_changes' = fs_changes + 1
    /\ broken' = None /\ orphans' = None /\ stats' = None
    /\ UNCHANGED <<extractVars, base_path, documents, iter_order, file_text,
                   unreadable, analyze_result>>

\* someone takes away the permission to read a markdown file or to list docs;
\* only analyze_directory reads files and directories, so this is followed
\* up to the population only
MakeUnreadable(x) ==
    /\ fs_changes < MaxFsChanges
    /\ analyze_result = NoValue
    /\ x \in (MdFiles \cap exists) \cup {DocsDir}
    /\ x \notin unreadable
    /\ unreadable' = unreadable \cup {x}
    /\ fs_changes' = fs_changes + 1
    /\ broken' = None /\ orphans' = None /\ stats' = None
    /\ UNCHANGED <<extractVars, base_path, documents, iter_order, file_text,
                   exists, analyze_result>>

\* analyzer.analyze_directory(): the corpus is populated once per analyzer
\* (main.rs builds a new analyzer for every command).  The walk reads the
\* root directory in any order, and the map iterates in any order.
AnalyzeDirectory ==
    /\ analyze_result = NoValue
    /\ \E root_order \in Orderings(RootChildren) :
          LET run == analyze_entries(walk_entries(root_order), documents)
          IN  /\ documents' = run.documents
              /\ analyze_result' = run.result
              /\ iter_order' \in Orderings(DOMAIN run.documents)
    /\ broken' = None /\ orphans' = None /\ stats' = None
    /\ UNCHANGED <<extractVars, base_path, file_text, exists, unreadable, fs_changes>>

\* The queries are called on a populated analyzer, as check_links,
\* show_statistics and find_orphans of main.rs do.

\* analyzer.find_broken_links()
FindBrokenLinks ==
    /\ analyze_result # NoValue
    /\ broken' = Some(find_broken_links)
    /\ UNCHANGED <<extractVars, base_path, documents, iter_order, file_text, exists,
                   unreadable, fs_changes, analyze_result, orphans, stats>>

\* faulty variant of FindOrphanedDocuments: the query consumes the map it
\* iterates over
FindOrphanedDocumentsDraining ==
    /\ analyze_result # NoValue
    /\ orphans' = Some(find_orphaned_documents)
    /\ documents' = <<>>
    /\ iter_order' = <<>>
    /\ UNCHANGED <<extractVars, base_path, file_text, exists,
                   unreadable, fs_changes, analyze_result, broken, stats>>

\* analyzer.find_orphaned_documents()
FindOrphanedDocuments ==
    /\ analyze_result # NoValue
    /\ orphans' = Some(find_orphaned_documents)
    /\ UNCHANGED <<extractVars, base_path, documents, iter_order, file_text, exists,
                   unreadable, fs_changes, analyze_result, broken, stats>>

\* analyzer.get_statistics()
GetStatistics ==
    /\ analyze_result # NoValue
    /\ stats' = Some(get_statistics)
    /\ UNCHANGED <<extractVars, base_path, documents, iter_order, file_text, exists,
                   unreadable, fs_changes, analyze_result, broken, orphans>>

Next ==
    \/ \E f \in TreeFiles : RemoveFile(f)
    \/ \E x \in MdFiles \cup {DocsDir} : MakeUnreadable(x)
    \/ AnalyzeDirectory
    \/ FindBrokenLinks
    \/ FindOrphanedDocuments
    \/ GetStatistics

Spec == Init /\ [][Next]_vars

\* ------------------------------------------------------------------------
\* The written document, read off the text without the extractor
\* ------------------------------------------------------------------------

\* 1-based line on which position p of text is written
LineOf(text, p) == 1 + Cardinality({q \in 1..(p - 1) : text[q] = NL})

\* number of lines of text: every "\n" ends one, and so does a last unended piece
LineCount(text) ==
    Cardinality({q \in 1..Len(text) : text[q] = NL})
        + (IF text # <<>> /\ text[Len(text)] # NL THEN 1 ELSE 0)

\* the characters written on line n
WrittenLine(text, n) ==
    LET ps == {p \in 1..Len(text) : text[p] # NL /\ LineOf(text, p) = n}
    IN  IF ps = {} THEN <<>>
        ELSE SubSeq(text, CHOOSE p \in ps : \A q \in ps : p <= q,
                          CHOOSE p \in ps : \A q \in ps : p >= q)

\* [text](target) is written on line at i..e, with "]" at j
IsInlineAt(line, i, j, e) ==
    /\ 1 <= i /\ i + 1 < j /\ j + 2 < e /\ e <= Len(line)
    /\ line[i] = "[" /\ line[j] = "]" /\ line[j + 1] = "(" /\ line[e] = ")"
    /\ \A x \in (i + 1)..(j - 1) : line[x] # "]"
    /\ \A x \in (j + 2)..(e - 1) : line[x] # ")"

\* [text][label] is written on line at i..k, with the first "]" at j
IsReferenceAt(line, i, j, k) ==
    /\ 1 <= i /\ i + 1 < j /\ j + 1 < k /\ k <= Len(line)
    /\ line[i] = "[" /\ line[j] = "]" /\ line[j + 1] = "[" /\ line[k] = "]"
    /\ \A x \in (i + 1)..(j - 1) : line[x] # "]"
    /\ \A x \in (j + 2)..(k - 1) : line[x] # "]"

\* the positions of line that hold character c
Positions(line, c) == {x \in 1..Len(line) : line[x] = c}

InlineSpans(line) ==
    {m \in Positions(line, "[") \X Positions(line, "]") \X Positions(line, ")") :
        IsInlineAt(line, m[1], m[2], m[3])}

ReferenceSpans(line) ==
    {m \in Positions(line, "[") \X Positions(line, "]") \X Positions(line, "]") :
        IsReferenceAt(line, m[1], m[2], m[3])}

\* a set of spans as a sequence, left to right
RECURSIVE LeftToRight(_)
LeftToRight(spans) ==
    IF spans = {} THEN <<>>
    ELSE LET m == CHOOSE x \in spans : \A y \in spans : x[1] <= y[1]
         IN  <<m>> \o LeftToRight(spans \ {m})

\* the occurrences among spans read left to right: a span is an occurrence
\* unless it starts inside the occurrence before it (last_end is where that ends)
RECURSIVE NonOverlapping(_, _)
NonOverlapping(spans, last_end) ==
    IF spans = <<>> THEN <<>>
    ELSE IF Head(spans)[1] > last_end
         THEN <<Head(spans)>> \o NonOverlapping(Tail(spans), Head(spans)[3])
         ELSE NonOverlapping(Tail(spans), last_end)

InlineOccurrences(line) == NonOverlapping(LeftToRight(InlineSpans(line)), 0)
ReferenceOccurrences(line) == NonOverlapping(LeftToRight(ReferenceSpans(line)), 0)

\* the line matches the reference-definition pattern [label]: url
IsDefinitionLine(line) ==
    \E j \in 3..Len(line) :
        /\ line[1] = "[" /\ line[j] = "]"
        /\ \A x \in 2..(j - 1) : line[x] # "]"
        /\ j + 2 <= Len(line)
        /\ line[j + 1] = ":"

\* the triples of out that carry line number n, in order
OnLine(out, n) == SelectSeq(out, LAMBDA t : t.line_number = n)

\* sub is seq with some of its elements left out
IsSubsequence(sub, seq) ==
    \E keep \in SUBSET (1..Len(seq)) :
        /\ Cardinality(keep) = Len(sub)
        /\ \A k \in 1..Len(sub) :
              \E i \in keep : /\ Cardinality({x \in keep : x <= i}) = k
                              /\ seq[i] = sub[k]

\* ------------------------------------------------------------------------
\* The corpus and the filesystem, read off the state without the queries
\* ------------------------------------------------------------------------

Range(seq) == {seq[i] : i \in 1..Len(seq)}

\* the link occurrences of the corpus: document and position in its sequence
Occurrences == UNION {{<<d, i>> : i \in 1..Len(documents[d])} : d \in DOMAIN documents}

OccurrenceLink(o) == documents[o[1]][o[2]]

\* the target begins with http:// or https://, letter for letter
BeginsWithScheme(target) ==
    \/ Len(target) >= 7 /\ SubSeq(target, 1, 7) = <<"h", "t", "t", "p", ":", "/", "/">>
    \/ Len(target) >= 8 /\ SubSeq(target, 1, 8) = <<"h", "t", "t", "p", "s", ":", "/", "/">>

\* the resolution rule: a target that starts with "/" is looked up under the
\* base path without that "/", any other target under the directory of the
\* document that contains it
RuleResolution(doc, target) ==
    IF target # <<>> /\ target[1] = "/"
    THEN join(base_path, Tail(target))
    ELSE join(SubSeq(doc, 1, Len(doc) - 1), target)

\* the documents the orphan query treats as root READMEs
RootReadmes == {Append(base_path, README_MD), Append(base_path, readme_md)}

\* doc and other name the same existing file
SameFile(p, q) == canonicalize(p) # None /\ canonicalize(p) = canonicalize(q)

\* some internal link of document from resolves to document doc
LinksTo(from, doc) ==
    \E i \in 1..Len(documents[from]) :
        /\ ~BeginsWithScheme(documents[from][i].target)
        /\ SameFile(RuleResolution(from, documents[from][i].target), doc)

\* the sum of the values of the function counts
RECURSIVE SumOf(_)
SumOf(counts) ==
    IF DOMAIN counts = {} THEN 0
    ELSE LET x == CHOOSE y \in DOMAIN counts : TRUE
         IN  counts[x] + SumOf([y \in (DOMAIN counts) \ {x} |-> counts[y]])

\* ------------------------------------------------------------------------
\* C1
\* ------------------------------------------------------------------------

\* C1 (as claimed): whatever way the base path is written, the document at
\* base path joined with README.md or readme.md is never among the paths
\* find_orphaned_documents returns.
C1_ReadmeNeverOrphaned ==
    orphans # None => Range(orphans[1]) \cap RootReadmes = {}

\* ------------------------------------------------------------------------
\* C2
\* ------------------------------------------------------------------------

\* C2 (as claimed): when analyze_directory returns an error the corpus holds
\* no document from that call: it is empty, as it was before the call.
C2_NoPartialCorpus ==
    analyze_result = "Err" => DOMAIN documents = {}

\* ------------------------------------------------------------------------
\* C3
\* ------------------------------------------------------------------------

\* C3 (as claimed), for a base path written canonically and every corpus
\* document still on disk: a document that is not a root README is returned
\* by find_orphaned_documents exactly when no other document of the corpus
\* holds an internal link that resolves to it; its links to itself do not
\* count.
C3_OrphanIffNoOtherReferrer ==
    (orphans # None /\ base_path = WorkDir /\ \A d \in DOMAIN documents : path_exists(d)) =>
        \A d \in (DOMAIN documents) \ RootReadmes :
            d \in Range(orphans[1])
                <=> ~\E from \in (DOMAIN documents) \ {d} : LinksTo(from, d)

\* ------------------------------------------------------------------------
\* C4
\* ------------------------------------------------------------------------

\* C4: find_broken_links returns exactly one BrokenLink for each internal
\* link occurrence of the corpus whose resolved path (by the resolution rule)
\* does not exist, and nothing else: an occurrence with an http:// or
\* https:// target or with an existing resolved path is not reported, and no
\* occurrence is reported twice or left out.
C4_BrokenLinksExact ==
    broken # None =>
        /\ \A k \in 1..Len(broken[1]) :
              \E o \in Occurrences : OccurrenceLink(o) = broken[1][k].link
        /\ \A o \in Occurrences :
              Cardinality({k \in 1..Len(broken[1]) : broken[1][k].link = OccurrenceLink(o)})
                = Cardinality({q \in Occurrences :
                                 /\ OccurrenceLink(q) = OccurrenceLink(o)
                                 /\ ~BeginsWithScheme(OccurrenceLink(q).target)
                                 /\ ~path_exists(RuleResolution(q[1], OccurrenceLink(q).target))})

\* a corpus with a document in docs and one at the root, a reported link, an
\* internal link to an existing file and an external link
C4_Witness ==
    /\ broken # None
    /\ Len(broken[1]) >= 1
    /\ \E d \in DOMAIN documents : Len(d) = Len(base_path) + 2
    /\ \E o \in Occurrences :
          /\ ~BeginsWithScheme(OccurrenceLink(o).target)
          /\ path_exists(RuleResolution(o[1], OccurrenceLink(o).target))
    /\ \E o \in Occurrences : BeginsWithScheme(OccurrenceLink(o).target)

\* ------------------------------------------------------------------------
\* C5
\* ------------------------------------------------------------------------

\* C5 (as claimed): every key of the corpus is the canonical absolute path of
\* its file, however the base path was written.
C5_KeysCanonical ==
    \A k \in DOMAIN documents : \E f \in MdFiles : k = WorkDir \o f

\* C5 (amended): every key of the corpus is the base path exactly as it was
\* written, followed by the path of a markdown file relative to it; while the
\* file exists the key canonicalizes to the file's canonical path, and the key
\* itself is that canonical path when the base path was written canonically.
C5_KeysAsWritten ==
    \A k \in DOMAIN documents :
        \E f \in MdFiles :
            /\ k = base_path \o f
            /\ f \in exists => canonicalize(k) = Some(WorkDir \o f)
            /\ base_path = WorkDir => k = WorkDir \o f

\* a populated corpus under a base path that is not written canonically
C5_Witness ==
    /\ analyze_result = "Ok"
    /\ base_path # WorkDir
    /\ Cardinality(DOMAIN documents) = Cardinality(MdFiles)

\* ------------------------------------------------------------------------
\* C6
\* ------------------------------------------------------------------------

\* C6: on the same corpus and an unchanged filesystem, the broken_links field
\* of the statistics is the number of elements find_broken_links returns and
\* the orphaned_documents field the number find_orphaned_documents returns.
C6_StatisticsConsistent ==
    stats # None =>
        /\ broken # None => stats[1].broken_links = Len(broken[1])
        /\ orphans # None => stats[1].orphaned_documents = Len(orphans[1])

\* the three queries have answered on one corpus that has broken links and orphans
C6_Witness ==
    /\ stats # None /\ broken # None /\ orphans # None
    /\ Len(broken[1]) >= 1
    /\ Len(orphans[1]) >= 1

\* ------------------------------------------------------------------------
\* C7
\* ------------------------------------------------------------------------

\* C7: in a statistics snapshot total_documents is the number of corpus
\* documents and of document_stats entries; internal_links + external_links
\* = total_links, globally and per document; each global count is the sum of
\* the per-document counts; and the external links are exactly the link
\* occurrences whose target begins with http:// or https:// letter for letter.
C7_StatisticsCounts ==
    stats # None =>
        LET st == stats[1]
            ds == st.document_stats
        IN  /\ st.total_documents = Cardinality(DOMAIN documents)
            /\ DOMAIN ds = DOMAIN documents
            /\ st.internal_links + st.external_links = st.total_links
            /\ st.total_links = SumOf([d \in DOMAIN ds |-> ds[d].total_links])
            /\ st.internal_links = SumOf([d \in DOMAIN ds |-> ds[d].internal_links])
            /\ st.external_links = SumOf([d \in DOMAIN ds |-> ds[d].external_links])
            /\ st.total_links = Cardinality(Occurrences)
            /\ st.external_links
                 = Cardinality({o \in Occurrences : BeginsWithScheme(OccurrenceLink(o).target)})
            /\ \A d \in DOMAIN ds :
                  /\ ds[d].total_links = Len(documents[d])
                  /\ ds[d].internal_links + ds[d].external_links = ds[d].total_links
                  /\ ds[d].external_links
                       = Cardinality({o \in Occurrences :
                                        /\ o[1] = d
                                        /\ BeginsWithScheme(OccurrenceLink(o).target)})

\* a snapshot of a corpus of several documents with external links and with
\* a target that differs from http:// only by the case of its letters
C7_Witness ==
    /\ stats # None
    /\ stats[1].total_documents >= 2
    /\ stats[1].external_links >= 1
    /\ \E o \in Occurrences :
          /\ ~BeginsWithScheme(OccurrenceLink(o).target)
          /\ starts_with(to_lowercase(OccurrenceLink(o).target), HTTP)

\* ------------------------------------------------------------------------
\* C8
\* ------------------------------------------------------------------------

\* C8: after the population, a step that is neither the population nor a
\* change of the filesystem (a query) leaves the corpus, its iteration order
\* and the base path as they were, and a query that had already answered
\* answers the same again.
C8_QueriesPure ==
    [][(analyze_result # NoValue /\ analyze_result' = analyze_result
            /\ fs_changes' = fs_changes)
        => /\ documents' = documents
           /\ iter_order' = iter_order
           /\ base_path' = base_path
           /\ broken # None => broken' = broken
           /\ orphans # None => orphans' = orphans
           /\ stats # None => stats' = stats]_vars

\* every query has answered on a populated corpus
C8_Witness ==
    /\ documents # <<>>
    /\ broken # None /\ orphans # None /\ stats # None

\* ------------------------------------------------------------------------
\* C9
\* ------------------------------------------------------------------------

\* C9: the triples extract_links returns have non-decreasing 1-based line
\* numbers, each the line on which the occurrence is written (blank lines
\* counted); the triples of one line start with one triple per inline
\* occurrence [text](target) of that line, left to right, carrying the text
\* and the target exactly as written, and only then come triples of the
\* line's reference-style occurrences, in their order.
C9_ExtractOrder ==
    links # None =>
        LET out == links[1]
            n_lines == LineCount(content)
        IN  /\ \A i \in 1..Len(out) : out[i].line_number \in 1..n_lines
            /\ \A i \in 1..Len(out) : \A j \in i..Len(out) :
                  out[i].line_number <= out[j].line_number
            /\ \A n \in 1..n_lines :
                  LET line == WrittenLine(content, n)
                      sub == OnLine(out, n)
                      inl == InlineOccurrences(line)
                      ref == ReferenceOccurrences(line)
                  IN  /\ Len(sub) >= Len(inl)
                      /\ \A k \in 1..Len(inl) :
                            /\ sub[k].text = SubSeq(line, inl[k][1] + 1, inl[k][2] - 1)
                            /\ sub[k].target = SubSeq(line, inl[k][2] + 2, inl[k][3] - 1)
                      /\ IsSubsequence(
                            [k \in 1..(Len(sub) - Len(inl)) |-> sub[Len(inl) + k].text],
                            [k \in 1..Len(ref) |-> SubSeq(line, ref[k][1] + 1, ref[k][2] - 1)])

\* a document with a line that holds an inline link and, to its left, a
\* reference-style link that is resolved: both are reported
C9_Witness ==
    /\ links # None
    /\ \E n \in 1..LineCount(content) :
          LET line == WrittenLine(content, n)
              inl == InlineOccurrences(line)
              ref == ReferenceOccurrences(line)
          IN  /\ Len(inl) >= 1 /\ Len(ref) >= 1
              /\ ref[1][1] < inl[1][1]
              /\ Len(OnLine(links[1], n)) > Len(inl)

\* ------------------------------------------------------------------------
\* C10
\* ------------------------------------------------------------------------

\* C10 (as claimed): no line that matches the reference-definition pattern
\* [label]: url contributes a triple: no reported line number is the number
\* of a definition line.
C10_DefinitionLinesSilent ==
    links # None =>
        \A i \in 1..Len(links[1]) :
            ~IsDefinitionLine(WrittenLine(content, links[1][i].line_number))

\* ------------------------------------------------------------------------
\* C11
\* ------------------------------------------------------------------------

\* where the label of a definition line ends: its first "]"
LabelEnd(line) == CHOOSE j \in 3..Len(line) :
    line[j] = "]" /\ \A x \in 2..(j - 1) : line[x] # "]"

\* the label and the url a definition line writes
DefinedLabel(line) == SubSeq(line, 2, LabelEnd(line) - 1)
DefinedUrl(line) == SubSeq(line, LabelEnd(line) + 2, Len(line))

\* two labels that differ at most in the case of their letters
SameLabel(a, b) ==
    /\ Len(a) = Len(b)
    /\ \A i \in 1..Len(a) : LowerChar(a[i]) = LowerChar(b[i])

\* the text and the label of the reference-style occurrence r of line
ReferenceText(line, r) == SubSeq(line, r[1] + 1, r[2] - 1)
ReferenceLabel(line, r) == SubSeq(line, r[2] + 2, r[3] - 1)

\* what the occurrence is looked up by: its label, or its text when the
\* label is empty
LookupLabel(line, r) ==
    IF ReferenceLabel(line, r) = <<>> THEN ReferenceText(line, r)
    ELSE ReferenceLabel(line, r)

\* the numbers of the lines of text that define label
DefinitionsOf(text, label) ==
    {n \in 1..LineCount(text) :
        /\ IsDefinitionLine(WrittenLine(text, n))
        /\ SameLabel(DefinedLabel(WrittenLine(text, n)), label)}

\* the last of a non-empty set of line numbers
LastOf(ns) == CHOOSE n \in ns : \A m \in ns : m <= n

\* one triple per occurrence of refs whose label text defines, in order
RECURSIVE ResolvedReferences(_, _, _, _)
ResolvedReferences(text, line, n, refs) ==
    IF refs = <<>> THEN <<>>
    ELSE LET r == Head(refs)
             defs == DefinitionsOf(text, LookupLabel(line, r))
             rest == ResolvedReferences(text, line, n, Tail(refs))
         IN  IF defs = {} THEN rest
             ELSE <<[text |-> ReferenceText(line, r),
                     target |-> trim(DefinedUrl(WrittenLine(text, LastOf(defs)))),
                     line_number |-> n]>> \o rest

\* C11: on every line, after the triples of the line's inline links, the
\* output holds exactly one triple for each reference-style occurrence
\* [text][label] whose lookup key (the label, or the text when the label is
\* empty, compared without regard to case) is defined by some line
\* [label]: url of the document, before or after the occurrence; the triple
\* carries the occurrence's text and line number and the trimmed url of the
\* last definition of that key; an occurrence whose key is nowhere defined
\* yields no triple.
C11_ReferenceLookup ==
    links # None =>
        \A n \in 1..LineCount(content) :
            LET line == WrittenLine(content, n)
                sub == OnLine(links[1], n)
                inl == Len(InlineOccurrences(line))
            IN  /\ Len(sub) >= inl
                /\ SubSeq(sub, inl + 1, Len(sub))
                      = ResolvedReferences(content, line, n,
                                           ReferenceOccurrences(line))

\* a document in which a reference-style link is resolved through a key that
\* two lines define with different urls, the last of them below the link and
\* written with untrimmed whitespace, and in which the link is reported
C11_Witness ==
    /\ links # None
    /\ \E n \in 1..LineCount(content) :
          LET line == WrittenLine(content, n)
              refs == ReferenceOccurrences(line)
          IN  \E k \in 1..Len(refs) :
                  LET defs == DefinitionsOf(content, LookupLabel(line, refs[k]))
                  IN  /\ Cardinality(defs) >= 2
                      /\ LastOf(defs) > n
                      /\ \E d \in defs :
                            trim(DefinedUrl(WrittenLine(content, d)))
                              # trim(DefinedUrl(WrittenLine(content, LastOf(defs))))
                      /\ DefinedUrl(WrittenLine(content, LastOf(defs)))
                            # trim(DefinedUrl(WrittenLine(content, LastOf(defs))))
                      /\ \E i \in 1..Len(links[1]) :
                            /\ links[1][i].line_number = n
                            /\ links[1][i].text = ReferenceText(line, refs[k])

====
